---------------------------- MODULE Spec2Model ----------------------------
(***************************************************************************)
(* Safety-supervised motor actuation of src/Raspberry/index.py:            *)
(* SafeMotorController (pins, PWM, watchdog loop, heartbeat loop), the     *)
(* command contexts that call it (ROS callbacks in the main thread, the    *)
(* HTTP server thread), and the process-level shutdown path (main's        *)
(* finally block, the signal handlers and the atexit handler).             *)
(*                                                                         *)
(* Threads interleave between Python statements: every method is a         *)
(* sequence of micro-operations (one per statement that touches shared     *)
(* state or a pin) and a thread's position is the index of its next one.   *)
(*                                                                         *)
(* Time is kept as the age of the last command, now - last_command_time,   *)
(* in seconds, saturating one second above WATCHDOG_TIMEOUT: the code      *)
(* only ever compares the age with WATCHDOG_TIMEOUT.                       *)
(***************************************************************************)
EXTENDS Integers, Sequences, FiniteSets, TLC

VARIABLES
  pin,              \* level of IN1..IN4 and of the hardware-watchdog pin
  duty,             \* effective duty (percent) of the enable channels ENA, ENB
  out_pins,         \* channels currently set up as outputs (GPIO.setup)
  pwm_on,           \* per enable channel: the PWM object is started
  current_speed,    \* SafeMotorController.current_speed
  is_moving,        \* SafeMotorController.is_moving
  watchdog_active,  \* SafeMotorController.watchdog_active
  age,              \* now - last_command_time, saturating
  cmd,              \* per command context: method running, position, whether a
                    \* speed argument was passed, local variable speed
  wd_pc, wd_idx,    \* _watchdog_loop: position, index inside the forced stop
  hb_pc,            \* _heartbeat_loop: position
  heartbeat_state,  \* _heartbeat_loop's local toggle
  main_pc, main_idx,\* main(): position, index inside the current callee
  has_node,         \* 'robot_node' in locals() of main
  http_serving,     \* the HTTP server thread accepts requests
  signals,          \* signals delivered so far
  released,         \* GPIO.cleanup() has run (history)
  late_writes,      \* a pin was written or set up after GPIO.cleanup() (history)
  stop_runs,        \* shutdown stop sequences started so far (history)
  reported,         \* per command context: condition its last dispatch reported
  tick_saw_stop,    \* the watchdog tick in flight began while a stop() call was
                    \* in flight, and no other command was issued since (history)
  wd_starved        \* a forced stop has completed and no movement command was
                    \* accepted since (history)

hw   == <<pin, duty, out_pins, pwm_on>>
ctl  == <<current_speed, is_moving, watchdog_active, age>>
thr  == <<cmd, wd_pc, wd_idx, hb_pc, heartbeat_state>>
proc == <<main_pc, main_idx, has_node, http_serving, signals>>
hist == <<released, late_writes, stop_runs>>
obs  == <<reported, tick_saw_stop, wd_starved>>
vars == <<pin, duty, out_pins, pwm_on, current_speed, is_moving,
          watchdog_active, age, cmd, wd_pc, wd_idx, hb_pc, heartbeat_state,
          main_pc, main_idx, has_node, http_serving, signals,
          released, late_writes, stop_runs,
          reported, tick_saw_stop, wd_starved>>

---------------------------------------------------------------------------
(* Constants of the program *)

WATCHDOG_TIMEOUT == 2
DEFAULT_SPEED == 70

LOW  == "LOW"
HIGH == "HIGH"

DirPins   == {"IN1", "IN2", "IN3", "IN4"}
Channels  == {"ENA", "ENB"}
MOTOR_PINS == DirPins \cup Channels
WATCHDOG_PIN == "WD"
LevelPins == DirPins \cup {WATCHDOG_PIN}
AllPins   == MOTOR_PINS \cup {WATCHDOG_PIN}

Ctx == {"ros", "http"}

(* Bounds of the model *)
MaxSignals == 1

---------------------------------------------------------------------------
(* Micro-operations *)

Op(k, p, v) == [k |-> k, p |-> p, v |-> v]

UpdateTime    == Op("time", "", "")
DefaultSpeed  == Op("default_speed", "", "")
Out(p, v)     == Op("out", p, v)
SetupLow(p)   == Op("setup_low", p, "")
DutyZero(ch)  == Op("duty_zero", ch, "")
DutySpeed(ch) == Op("duty_speed", ch, "")
SetMoving(b)  == Op("moving", "", IF b THEN HIGH ELSE LOW)
ClampSpeed    == Op("clamp", "", "")

\* self.last_command_time = time.time()
_update_command_time == <<UpdateTime>>

\* Mutant: set_speed applies the new speed to the enable channels at once.
set_speed_applies ==
  << UpdateTime, ClampSpeed, DutySpeed("ENA"), DutySpeed("ENB") >>

\* Mutant: the forced stop forgets the second enable channel.
_emergency_stop_motors_no_enb ==
  << DutyZero("ENA"),
     Out("IN1", LOW), Out("IN2", LOW), Out("IN3", LOW), Out("IN4", LOW),
     Out(WATCHDOG_PIN, LOW) >>

\* Mutant: the forced stop's loop over the direction pins ends one early.
_emergency_stop_motors_no_in4 ==
  << DutyZero("ENA"), DutyZero("ENB"),
     Out("IN1", LOW), Out("IN2", LOW), Out("IN3", LOW),
     Out(WATCHDOG_PIN, LOW) >>

_emergency_stop_motors ==
  << DutyZero("ENA"), DutyZero("ENB"),
     Out("IN1", LOW), Out("IN2", LOW), Out("IN3", LOW), Out("IN4", LOW),
     Out(WATCHDOG_PIN, LOW) >>

move_forward ==
  _update_command_time \o
  << DefaultSpeed,
     Out(WATCHDOG_PIN, HIGH),
     Out("IN1", HIGH), Out("IN2", LOW), Out("IN3", HIGH), Out("IN4", LOW),
     DutySpeed("ENA"), DutySpeed("ENB"),
     SetMoving(TRUE) >>

\* Mutant: backward re-enables the hardware watchdog after the enables.
move_backward_late_wd ==
  _update_command_time \o
  << DefaultSpeed,
     Out("IN1", LOW), Out("IN2", HIGH), Out("IN3", LOW), Out("IN4", HIGH),
     DutySpeed("ENA"), DutySpeed("ENB"),
     Out(WATCHDOG_PIN, HIGH),
     SetMoving(TRUE) >>

move_backward ==
  _update_command_time \o
  << DefaultSpeed,
     Out(WATCHDOG_PIN, HIGH),
     Out("IN1", LOW), Out("IN2", HIGH), Out("IN3", LOW), Out("IN4", HIGH),
     DutySpeed("ENA"), DutySpeed("ENB"),
     SetMoving(TRUE) >>

\* Mutant: the left pivot drives the left motor forward as well.
turn_left_swapped ==
  _update_command_time \o
  << DefaultSpeed,
     Out(WATCHDOG_PIN, HIGH),
     Out("IN1", HIGH), Out("IN2", LOW), Out("IN3", HIGH), Out("IN4", LOW),
     DutySpeed("ENA"), DutySpeed("ENB"),
     SetMoving(TRUE) >>

turn_left ==
  _update_command_time \o
  << DefaultSpeed,
     Out(WATCHDOG_PIN, HIGH),
     Out("IN1", LOW), Out("IN2", HIGH), Out("IN3", HIGH), Out("IN4", LOW),
     DutySpeed("ENA"), DutySpeed("ENB"),
     SetMoving(TRUE) >>

turn_right ==
  _update_command_time \o
  << DefaultSpeed,
     Out(WATCHDOG_PIN, HIGH),
     Out("IN1", HIGH), Out("IN2", LOW), Out("IN3", LOW), Out("IN4", HIGH),
     DutySpeed("ENA"), DutySpeed("ENB"),
     SetMoving(TRUE) >>

\* Mutant: stop leaves is_moving as it was.
stop_keeps_moving ==
  _update_command_time \o
  << DutyZero("ENA"), DutyZero("ENB"),
     Out("IN1", LOW), Out("IN2", LOW), Out("IN3", LOW), Out("IN4", LOW) >>

stop ==
  _update_command_time \o
  << DutyZero("ENA"), DutyZero("ENB"),
     Out("IN1", LOW), Out("IN2", LOW), Out("IN3", LOW), Out("IN4", LOW),
     SetMoving(FALSE) >>

set_speed == _update_command_time \o << ClampSpeed >>

\* The module-level emergency_stop(): set up and drive LOW every motor pin
\* in the order of the MOTOR_PINS dictionary, then the watchdog pin.
\* GPIO.setup(pin, GPIO.OUT) and GPIO.output(pin, GPIO.LOW) of one pin are
\* one micro-operation.
emergency_stop ==
  << SetupLow("IN1"), SetupLow("IN2"), SetupLow("IN3"), SetupLow("IN4"),
     SetupLow("ENA"), SetupLow("ENB"),
     SetupLow(WATCHDOG_PIN) >>

Moves == {"move_forward", "move_backward", "turn_left", "turn_right"}
Methods == Moves \cup {"stop", "set_speed", "_emergency_stop_motors"}

ProgOf(m) ==
  CASE m = "move_forward"  -> move_forward
    [] m = "move_backward" -> move_backward
    [] m = "turn_left"     -> turn_left
    [] m = "turn_right"    -> turn_right
    [] m = "stop"          -> stop
    [] m = "set_speed"     -> set_speed
    [] m = "_emergency_stop_motors" -> _emergency_stop_motors

\* Methods whose body is one try/except that swallows every exception.
Guarded(m) == m = "_emergency_stop_motors"

---------------------------------------------------------------------------
(* The shared state as one value, and the effect of one micro-operation *)

Shared == [pin |-> pin, duty |-> duty, out_pins |-> out_pins, pwm_on |-> pwm_on,
           current_speed |-> current_speed, is_moving |-> is_moving, age |-> age]

Max(a, b) == IF a > b THEN a ELSE b
Min(a, b) == IF a < b THEN a ELSE b

\* Mutant: the lower bound of the clamp is lost.
Clamp_no_lower(p) == Min(100, p)

\* max(0, min(100, speed))
Clamp(p) == Max(0, Min(100, p))

\* GPIO.output on a channel that is not set up as an output raises.
Raises(op, s) == op.k = "out" /\ op.p \notin s.out_pins

\* pwm.ChangeDutyCycle(d) raises ValueError for a d outside 0.0 .. 100.0.
Rejects(op, spd) == op.k = "duty_speed" /\ spd \notin 0..100

\* Mutant: the duty written is also stored as current_speed.
ChangeDutyCycle_stores(s, ch, d) ==
  IF s.pwm_on[ch] THEN [s EXCEPT !.duty[ch] = d, !.current_speed = d] ELSE s

\* pwm.ChangeDutyCycle(d): takes effect on a started PWM object only.
ChangeDutyCycle(s, ch, d) ==
  IF s.pwm_on[ch] THEN [s EXCEPT !.duty[ch] = d] ELSE s

\* GPIO.output(p, v): an enable pin driven LOW carries no duty.
Output(s, p, v) ==
  IF p \in Channels THEN [s EXCEPT !.duty[p] = 0]
                    ELSE [s EXCEPT !.pin[p] = v]

\* The shared state after op, run with local variable speed = spd.
Exec(op, s, spd) ==
  CASE op.k = "time"          -> [s EXCEPT !.age = 0]
    [] op.k = "default_speed" -> s
    [] op.k = "out"           -> Output(s, op.p, op.v)
    [] op.k = "setup_low"     ->
         Output([s EXCEPT !.out_pins = @ \cup {op.p}], op.p, LOW)
    [] op.k = "duty_zero"     -> ChangeDutyCycle(s, op.p, 0)
    [] op.k = "duty_speed"    -> ChangeDutyCycle(s, op.p, spd)
    [] op.k = "moving"        -> [s EXCEPT !.is_moving = (op.v = HIGH)]
    [] op.k = "clamp"         -> [s EXCEPT !.current_speed = Clamp(spd)]

\* A whole guarded or unguarded sequence run without interleaving, from
\* position i on; a raise ends it.
RECURSIVE RunFrom(_, _, _, _)
RunFrom(prog, i, s, spd) ==
  IF i > Len(prog) \/ Raises(prog[i], s) THEN s
  ELSE RunFrom(prog, i + 1, Exec(prog[i], s, spd), spd)

\* Writes of a micro-operation that reach a pin or a channel's setup.
IsPinWrite(op) == op.k \in {"out", "setup_low", "duty_zero", "duty_speed"}

Install(s) ==
  /\ pin' = s.pin
  /\ duty' = s.duty
  /\ out_pins' = s.out_pins
  /\ pwm_on' = s.pwm_on
  /\ current_speed' = s.current_speed
  /\ is_moving' = s.is_moving
  /\ age' = s.age

\* History of pin writes after GPIO.cleanup().
NoteWrite(op, raised) ==
  late_writes' = (late_writes \/ (released /\ IsPinWrite(op) /\ ~raised))

Idle == [m |-> "idle", idx |-> 0, given |-> FALSE, arg |-> 0, speed |-> 0]

---------------------------------------------------------------------------
Init ==
  /\ pin = [p \in LevelPins |-> LOW]
  /\ duty = [c \in Channels |-> 0]
  /\ out_pins = {}
  /\ pwm_on = [c \in Channels |-> FALSE]
  /\ current_speed = DEFAULT_SPEED
  /\ is_moving = FALSE
  /\ watchdog_active = FALSE
  /\ age = 0
  /\ cmd = [t \in Ctx |-> Idle]
  /\ wd_pc = "off" /\ wd_idx = 0
  /\ hb_pc = "off" /\ heartbeat_state = TRUE
  /\ main_pc = "start" /\ main_idx = 0
  /\ has_node = FALSE
  /\ http_serving = FALSE
  /\ signals = 0
  /\ released = FALSE /\ late_writes = FALSE /\ stop_runs = 0
  /\ reported = [t \in Ctx |-> "none"]
  /\ tick_saw_stop = FALSE
  /\ wd_starved = FALSE

\* SafeMotorController.__init__, called from SafeRobotCarNode.__init__.
Construct ==
  /\ main_pc = "start"
  /\ pin' = [p \in LevelPins |-> IF p = WATCHDOG_PIN THEN HIGH ELSE LOW]
  /\ duty' = [c \in Channels |-> 0]
  /\ out_pins' = AllPins
  /\ pwm_on' = [c \in Channels |-> TRUE]
  /\ current_speed' = DEFAULT_SPEED
  /\ age' = 0
  /\ is_moving' = FALSE
  /\ watchdog_active' = TRUE
  /\ wd_pc' = "loop"
  /\ hb_pc' = "loop"
  /\ main_pc' = "node_init"
  /\ UNCHANGED <<cmd, wd_idx, heartbeat_state, main_idx, has_node,
                 http_serving, signals, hist>>
  /\ UNCHANGED obs

\* The rest of SafeRobotCarNode.__init__ (subscriptions, start_http_server)
\* and main's entry into rclpy.spin.
NodeReady ==
  /\ main_pc = "node_init"
  /\ main_pc' = "spin"
  /\ has_node' = TRUE
  /\ http_serving' = TRUE
  /\ UNCHANGED <<hw, ctl, thr, main_idx, signals, hist>>
  /\ UNCHANGED obs

\* time.time() advances by one second.
Tick ==
  /\ main_pc # "exited"
  /\ age <= WATCHDOG_TIMEOUT
  /\ age' = age + 1
  /\ UNCHANGED <<hw, current_speed, is_moving, watchdog_active, thr, proc, hist>>
  /\ UNCHANGED obs

---------------------------------------------------------------------------
(* Command contexts: ROS callbacks run on the main thread inside           *)
(* rclpy.spin; HTTP requests run on the server thread.                     *)

Serving(t) ==
  /\ main_pc # "exited"
  /\ IF t = "ros" THEN main_pc = "spin" ELSE http_serving

\* A context enters method m; given: a speed argument is passed (arg keeps
\* the value passed, speed is the method's local variable).
CmdStart(t, m, given, speed) ==
  /\ Serving(t)
  /\ cmd[t].m = "idle"
  /\ cmd' = [cmd EXCEPT ![t] = [m |-> m, idx |-> 1, given |-> given,
                                arg   |-> IF given THEN speed ELSE 0,
                                speed |-> IF given THEN speed ELSE 0]]
  /\ reported' = [reported EXCEPT ![t] = "none"]
  /\ tick_saw_stop' = (tick_saw_stop /\ m = "stop")
  /\ wd_starved' = (wd_starved /\ m \notin Moves)
  /\ UNCHANGED <<hw, ctl, wd_pc, wd_idx, hb_pc, heartbeat_state, proc, hist>>

\* Mutant: the speed argument is overwritten even when one was passed.
LocalAfter_always_default(op, c) ==
  IF op.k = "default_speed"
  THEN [c EXCEPT !.speed = current_speed]
  ELSE c

\* The local variable speed after op: "if speed is None: speed = self.current_speed".
LocalAfter(op, c) ==
  IF op.k = "default_speed" /\ ~c.given
  THEN [c EXCEPT !.speed = current_speed]
  ELSE c

\* A forced stop that completes starves the hardware watchdog, unless a
\* movement command is already running.
Starves(completes) ==
  completes /\ \A u \in Ctx : cmd[u].m \notin Moves

Advance(c, prog) ==
  IF c.idx = Len(prog) THEN Idle ELSE [c EXCEPT !.idx = @ + 1]

\* A context runs the next statement of its method.  An exception leaves
\* a guarded method normally; from any other method it ends the HTTP
\* request, and on the main thread it leaves rclpy.spin for main's finally.
CmdStep(t) ==
  /\ cmd[t].m # "idle"
  /\ main_pc # "exited"
  /\ LET c    == cmd[t]
         prog == ProgOf(c.m)
         op   == prog[c.idx]
     IN IF Raises(op, Shared) \/ Rejects(op, c.speed)
        THEN /\ cmd' = [cmd EXCEPT ![t] = Idle]
             /\ main_pc' = IF t = "ros" /\ ~Guarded(c.m) THEN "finally" ELSE main_pc
             /\ late_writes' = late_writes
             /\ UNCHANGED <<hw, ctl>>
        ELSE /\ Install(Exec(op, Shared, c.speed))
             /\ cmd' = [cmd EXCEPT ![t] = Advance(LocalAfter(op, c), prog)]
             /\ NoteWrite(op, FALSE)
             /\ UNCHANGED <<watchdog_active, main_pc>>
  /\ wd_starved' = (wd_starved \/ Starves(cmd[t].m = "_emergency_stop_motors"
                                            /\ cmd[t].idx = Len(_emergency_stop_motors)
                                            /\ ~Raises(ProgOf(cmd[t].m)[cmd[t].idx], Shared)))
  /\ UNCHANGED <<wd_pc, wd_idx, hb_pc, heartbeat_state, main_idx, has_node,
                 http_serving, signals, released, stop_runs,
                 reported, tick_saw_stop>>

---------------------------------------------------------------------------
(* _watchdog_loop *)

\* while self.watchdog_active  (the sleep of the previous tick has ended)
WdLoop ==
  /\ wd_pc = "loop" /\ main_pc # "exited"
  /\ wd_pc' = IF watchdog_active THEN "stale" ELSE "done"
  /\ tick_saw_stop' = (watchdog_active /\ \E t \in Ctx : cmd[t].m = "stop")
  /\ UNCHANGED <<hw, ctl, cmd, wd_idx, hb_pc, heartbeat_state, proc, hist,
                 reported, wd_starved>>

\* if (current_time - self.last_command_time) > WATCHDOG_TIMEOUT
WdStale ==
  /\ wd_pc = "stale" /\ main_pc # "exited"
  /\ wd_pc' = IF age > WATCHDOG_TIMEOUT THEN "moving" ELSE "loop"
  /\ tick_saw_stop' = (tick_saw_stop /\ age > WATCHDOG_TIMEOUT)
  /\ UNCHANGED <<hw, ctl, cmd, wd_idx, hb_pc, heartbeat_state, proc, hist,
                 reported, wd_starved>>

\* if self.is_moving
WdMoving ==
  /\ wd_pc = "moving" /\ main_pc # "exited"
  /\ wd_pc' = IF is_moving THEN "estop" ELSE "loop"
  /\ wd_idx' = IF is_moving THEN 1 ELSE 0
  /\ tick_saw_stop' = (tick_saw_stop /\ is_moving)
  /\ UNCHANGED <<hw, ctl, cmd, hb_pc, heartbeat_state, proc, hist,
                 reported, wd_starved>>

\* self._emergency_stop_motors(), one statement
WdEstop ==
  /\ wd_pc = "estop" /\ main_pc # "exited"
  /\ LET prog == _emergency_stop_motors
         op   == prog[wd_idx]
     IN IF Raises(op, Shared)
        THEN /\ wd_pc' = "clear" /\ wd_idx' = 0
             /\ late_writes' = late_writes
             /\ UNCHANGED <<hw, ctl>>
        ELSE /\ Install(Exec(op, Shared, 0))
             /\ wd_pc' = IF wd_idx = Len(prog) THEN "clear" ELSE "estop"
             /\ wd_idx' = IF wd_idx = Len(prog) THEN 0 ELSE wd_idx + 1
             /\ NoteWrite(op, FALSE)
             /\ UNCHANGED watchdog_active
  /\ wd_starved' = (wd_starved \/ Starves(wd_idx = Len(_emergency_stop_motors)
                                            /\ ~Raises(_emergency_stop_motors[wd_idx], Shared)))
  /\ UNCHANGED <<cmd, hb_pc, heartbeat_state, proc, released, stop_runs,
                 reported, tick_saw_stop>>

\* Mutant: the tick disarms the watchdog after its forced stop.
WdClear_disarms ==
  /\ wd_pc = "clear" /\ main_pc # "exited"
  /\ is_moving' = FALSE
  /\ watchdog_active' = FALSE
  /\ wd_pc' = "loop"
  /\ tick_saw_stop' = FALSE
  /\ UNCHANGED <<hw, current_speed, age, cmd, wd_idx, hb_pc,
                 heartbeat_state, proc, hist, reported, wd_starved>>

\* Mutant: the heartbeat tick refreshes the command timestamp.
HbBranch_refreshes ==
  /\ hb_pc = "branch" /\ main_pc # "exited"
  /\ hb_pc' = IF is_moving THEN "toggle" ELSE "hold"
  /\ age' = 0
  /\ UNCHANGED <<hw, current_speed, is_moving, watchdog_active, cmd, wd_pc,
                 wd_idx, heartbeat_state, proc, hist>>
  /\ UNCHANGED obs

\* Mutant: the tick ends its forced stop without clearing is_moving.
WdClear_keeps_moving ==
  /\ wd_pc = "clear" /\ main_pc # "exited"
  /\ wd_pc' = "loop"
  /\ tick_saw_stop' = FALSE
  /\ UNCHANGED <<hw, ctl, cmd, wd_idx, hb_pc, heartbeat_state, proc, hist,
                 reported, wd_starved>>

\* self.is_moving = False, then time.sleep(0.1)
WdClear ==
  /\ wd_pc = "clear" /\ main_pc # "exited"
  /\ is_moving' = FALSE
  /\ wd_pc' = "loop"
  /\ tick_saw_stop' = FALSE
  /\ UNCHANGED <<hw, current_speed, watchdog_active, age, cmd, wd_idx, hb_pc,
                 heartbeat_state, proc, hist, reported, wd_starved>>

Watchdog == WdLoop \/ WdStale \/ WdMoving \/ WdEstop \/ WdClear

---------------------------------------------------------------------------
(* _heartbeat_loop *)

\* Mutant: the heartbeat loop never looks at the armed flag.
HbLoop_ignores_flag ==
  /\ hb_pc = "loop" /\ main_pc # "exited"
  /\ hb_pc' = "branch"
  /\ UNCHANGED <<hw, ctl, cmd, wd_pc, wd_idx, heartbeat_state, proc, hist>>
  /\ UNCHANGED obs

\* while self.watchdog_active
HbLoop ==
  /\ hb_pc = "loop" /\ main_pc # "exited"
  /\ hb_pc' = IF watchdog_active THEN "branch" ELSE "done"
  /\ UNCHANGED <<hw, ctl, cmd, wd_pc, wd_idx, heartbeat_state, proc, hist>>
  /\ UNCHANGED obs

\* if WATCHDOG_PIN and self.is_moving ... elif WATCHDOG_PIN
HbBranch ==
  /\ hb_pc = "branch" /\ main_pc # "exited"
  /\ hb_pc' = IF is_moving THEN "toggle" ELSE "hold"
  /\ UNCHANGED <<hw, ctl, cmd, wd_pc, wd_idx, heartbeat_state, proc, hist>>
  /\ UNCHANGED obs

\* Mutant: a moving tick holds the pin HIGH instead of toggling it.
HbLevel_always_high(pc, state) == HIGH

\* The level a heartbeat tick writes from position pc.
HbLevel(pc, state) ==
  IF pc = "toggle" THEN (IF state THEN HIGH ELSE LOW) ELSE HIGH

\* GPIO.output(WATCHDOG_PIN, ...), heartbeat_state = not heartbeat_state,
\* time.sleep(HEARTBEAT_INTERVAL); an exception is printed and the loop goes on.
HbWrite ==
  /\ hb_pc \in {"toggle", "hold"} /\ main_pc # "exited"
  /\ LET op == Out(WATCHDOG_PIN, HbLevel(hb_pc, heartbeat_state))
     IN IF Raises(op, Shared)
        THEN /\ UNCHANGED <<hw, ctl, heartbeat_state>>
             /\ late_writes' = late_writes
        ELSE /\ Install(Exec(op, Shared, 0))
             /\ heartbeat_state' = IF hb_pc = "toggle" THEN ~heartbeat_state
                                                       ELSE heartbeat_state
             /\ NoteWrite(op, FALSE)
             /\ UNCHANGED watchdog_active
  /\ hb_pc' = "loop"
  /\ UNCHANGED <<cmd, wd_pc, wd_idx, proc, released, stop_runs>>
  /\ UNCHANGED obs

Heartbeat == HbLoop \/ HbBranch \/ HbWrite

---------------------------------------------------------------------------
(* Scheduling *)

\* No thread is inside a method, a tick or a shutdown step.
Quiescent ==
  /\ \A t \in Ctx : cmd[t].m = "idle"
  /\ wd_pc \in {"off", "loop", "done"}
  /\ hb_pc \in {"off", "loop", "done"}
 

SpeedArgs  == {-5, 40, 150}
MoveSpeeds == {0, 40, 100}

\* Commands as the transports issue them: execute_command calls the
\* methods without argument,
IssuePlain(T, M) ==
  \E t \in T, m \in M : CmdStart(t, m, FALSE, 0)

\* cmd_vel_callback passes a speed to a move,
IssueMove(T, MS) ==
  \E t \in T, m \in Moves, s \in MS : CmdStart(t, m, TRUE, s)

\* handle_control_command passes the speed value to set_speed.
IssueSpeed(T, SS) ==
  \E t \in T, s \in SS : CmdStart(t, "set_speed", TRUE, s)

Plain == Methods \ {"set_speed"}

\* Every interleaving of one command context with the two loops.
Next ==
  \/ Construct
  \/ NodeReady
  \/ Tick
  \/ IssuePlain({"ros"}, Plain)
  \/ IssueMove({"ros"}, {40})
  \/ IssueSpeed({"ros"}, {40})
  \/ \E t \in Ctx : CmdStep(t)
  \/ Watchdog
  \/ Heartbeat

Spec == Init /\ [][Next]_vars

\* Serial schedules: a command or a tick begins only when nothing else is
\* in flight, so every method and every tick runs without interleaving.
NextSeq ==
  \/ Construct
  \/ NodeReady
  \/ Tick
  \/ Quiescent /\ IssuePlain(Ctx, Plain)
  \/ Quiescent /\ IssueMove(Ctx, MoveSpeeds)
  \/ Quiescent /\ IssueSpeed(Ctx, SpeedArgs)
  \/ \E t \in Ctx : CmdStep(t)
  \/ Quiescent /\ WdLoop
  \/ WdStale \/ WdMoving \/ WdEstop \/ WdClear
  \/ Quiescent /\ HbLoop
  \/ HbBranch \/ HbWrite

SpecSeq == Init /\ [][NextSeq]_vars

---------------------------------------------------------------------------
(* Command tokens and their dispatch *)

Tokens == {"forward", "backward", "left", "right", "stop", "emergency_stop",
           "speed", "banana", "FORWARD", "Stop"}

\* str.lower() on the tokens above.
lower(command) ==
  CASE command = "FORWARD" -> "forward"
    [] command = "Stop"    -> "stop"
    [] OTHER               -> command

\* Mutant: an unknown token is escalated to the forced stop.
execute_command_escalates(command) ==
  LET c == lower(command)
  IN CASE c = "forward"        -> "move_forward"
       [] c = "backward"       -> "move_backward"
       [] c = "left"           -> "turn_left"
       [] c = "right"          -> "turn_right"
       [] c = "stop"           -> "stop"
       [] OTHER                -> "_emergency_stop_motors"

\* The controller method execute_command calls for a token; "unknown" is
\* its else branch, which only logs a warning.
execute_command(command) ==
  LET c == lower(command)
  IN CASE c = "forward"        -> "move_forward"
       [] c = "backward"       -> "move_backward"
       [] c = "left"           -> "turn_left"
       [] c = "right"          -> "turn_right"
       [] c = "stop"           -> "stop"
       [] c = "emergency_stop" -> "_emergency_stop_motors"
       [] OTHER                -> "unknown"

\* A dispatch that ends at once in context t, reporting condition r and
\* calling no controller method.
Report(t, r) ==
  /\ Serving(t)
  /\ cmd[t].m = "idle"
  /\ reported' = [reported EXCEPT ![t] = r]
  /\ UNCHANGED <<hw, ctl, thr, proc, hist, tick_saw_stop, wd_starved>>

\* Context t enters execute_command(command).
Execute(t, command) ==
  IF execute_command(command) = "unknown"
  THEN Report(t, "UnknownCommand")
  ELSE CmdStart(t, execute_command(command), FALSE, 0)

\* command_callback: a std_msgs/String on the command topic.
command_callback(data) == Execute("ros", lower(data))

\* The 'value' parameter of a /control request: absent, not a number, or
\* an integer.
NoValue   == [kind |-> "absent", n |-> 0]
TextValue == [kind |-> "text", n |-> 0]
Values == {NoValue, TextValue} \cup {[kind |-> "int", n |-> v] : v \in SpeedArgs}

\* handle_control_command: GET /control?cmd=<command>[&value=<value>].
\* int() of a value that is not a number raises ValueError, which ends the
\* request without a response.
handle_control_command(command, value) ==
  IF command = "speed" /\ value.kind # "absent"
  THEN IF value.kind = "int"
       THEN CmdStart("http", "set_speed", TRUE, value.n)
       ELSE Report("http", "ValueError")
  ELSE Execute("http", command)

\* handle_emergency_stop: GET /emergency_stop.
handle_emergency_stop == CmdStart("http", "_emergency_stop_motors", FALSE, 0)

\* Serial schedules of the token-level commands of both transports; a
\* method or a tick takes no time, the clock advances between them.
NextCmd ==
  \/ Construct
  \/ NodeReady
  \/ Quiescent /\ Tick
  \/ Quiescent /\ \E data \in Tokens : command_callback(data)
  \/ Quiescent /\ \E command \in Tokens, value \in Values :
                    handle_control_command(command, value)
  \/ Quiescent /\ handle_emergency_stop
  \/ \E t \in Ctx : CmdStep(t)
  \/ Quiescent /\ WdLoop
  \/ WdStale \/ WdMoving \/ WdEstop \/ WdClear
  \/ Quiescent /\ HbLoop
  \/ HbBranch \/ HbWrite

SpecCmd == Init /\ [][NextCmd]_vars

---------------------------------------------------------------------------
(* The two command contexts at once: forward, backward and stop issued     *)
(* from ROS callbacks and from HTTP requests, interleaved statement by     *)
(* statement.                                                              *)

DualCommands == {"move_forward", "move_backward", "stop"}

NextDual ==
  \/ Construct
  \/ NodeReady
  \/ IssuePlain(Ctx, DualCommands)
  \/ \E t \in Ctx : CmdStep(t)

SpecDual == Init /\ [][NextDual]_vars

---------------------------------------------------------------------------
(* Velocity input: geometry_msgs/Twist on cmd_vel.  linear.x and angular.z *)
(* are kept in hundredths, so that abs(x * 100) is the absolute value.     *)

Abs(x) == IF x < 0 THEN 0 - x ELSE x

VelValues == {-150, -40, 0, 5, 40, 150}

\* Mutant: the angular deadband is lost.
Twist_no_deadband(linear, angular) ==
  IF Abs(linear) > Abs(angular)
  THEN IF linear > 0 THEN [m |-> "move_forward", given |-> TRUE, speed |-> Abs(linear)]
       ELSE [m |-> "move_backward", given |-> TRUE, speed |-> Abs(linear)]
  ELSE IF Abs(angular) > 0
  THEN IF angular > 0 THEN [m |-> "turn_left", given |-> TRUE, speed |-> Abs(angular)]
       ELSE [m |-> "turn_right", given |-> TRUE, speed |-> Abs(angular)]
  ELSE [m |-> "stop", given |-> FALSE, speed |-> 0]

\* The controller method cmd_vel_callback calls and the speed it passes.
Twist(linear, angular) ==
  IF Abs(linear) > Abs(angular)
  THEN IF linear > 0 THEN [m |-> "move_forward", given |-> TRUE, speed |-> Abs(linear)]
       ELSE IF linear < 0 THEN [m |-> "move_backward", given |-> TRUE, speed |-> Abs(linear)]
       ELSE [m |-> "idle", given |-> FALSE, speed |-> 0]
  ELSE IF Abs(angular) > 10
  THEN IF angular > 0 THEN [m |-> "turn_left", given |-> TRUE, speed |-> Abs(angular)]
       ELSE [m |-> "turn_right", given |-> TRUE, speed |-> Abs(angular)]
  ELSE [m |-> "stop", given |-> FALSE, speed |-> 0]

\* cmd_vel_callback: self.motor_controller._update_command_time(), then the
\* call of the method.
cmd_vel_callback(linear, angular) ==
  LET call == Twist(linear, angular)
  IN /\ Serving("ros")
     /\ cmd["ros"].m = "idle"
     /\ age' = 0
     /\ cmd' = [cmd EXCEPT !["ros"] =
                  [m |-> call.m, idx |-> IF call.m = "idle" THEN 0 ELSE 1,
                   given |-> call.given, arg |-> call.speed,
                   speed |-> call.speed]]
     /\ reported' = [reported EXCEPT !["ros"] = "none"]
     /\ tick_saw_stop' = (tick_saw_stop /\ call.m = "stop")
     /\ wd_starved' = (wd_starved /\ call.m \notin Moves)
     /\ UNCHANGED <<hw, current_speed, is_moving, watchdog_active, wd_pc,
                    wd_idx, hb_pc, heartbeat_state, proc, hist>>

\* Serial schedules of velocity inputs.
NextVel ==
  \/ Construct
  \/ NodeReady
  \/ Tick
  \/ Quiescent /\ \E linear \in VelValues, angular \in VelValues :
                    cmd_vel_callback(linear, angular)
  \/ \E t \in Ctx : CmdStep(t)
  \/ Quiescent /\ WdLoop
  \/ WdStale \/ WdMoving \/ WdEstop \/ WdClear
  \/ Quiescent /\ HbLoop
  \/ HbBranch \/ HbWrite

SpecVel == Init /\ [][NextVel]_vars

---------------------------------------------------------------------------
(* Hardware write failures *)

\* The pin write context t is about to make raises (the GPIO library
\* reports a failure).  The exception leaves the method as in CmdStep.
CmdFault(t) ==
  /\ cmd[t].m # "idle"
  /\ main_pc # "exited"
  /\ IsPinWrite(ProgOf(cmd[t].m)[cmd[t].idx])
  /\ cmd' = [cmd EXCEPT ![t] = Idle]
  /\ main_pc' = IF t = "ros" /\ ~Guarded(cmd[t].m) THEN "finally" ELSE main_pc
  /\ UNCHANGED <<hw, ctl, wd_pc, wd_idx, hb_pc, heartbeat_state, main_idx,
                 has_node, http_serving, signals, hist, obs>>

\* The pin write the watchdog's forced stop is about to make raises:
\* _emergency_stop_motors prints the error and returns, to the tick's
\* "self.is_moving = False" or, from the tick's except handler, to the loop.
WdFault ==
  /\ wd_pc \in {"estop", "recover"} /\ main_pc # "exited"
  /\ wd_pc' = IF wd_pc = "estop" THEN "clear" ELSE "loop"
  /\ wd_idx' = 0
  /\ tick_saw_stop' = (tick_saw_stop /\ wd_pc = "estop")
  /\ UNCHANGED <<hw, ctl, cmd, hb_pc, heartbeat_state, proc, hist,
                 reported, wd_starved>>

\* A statement of the tick outside the forced stop raises (the print before
\* the call): "except Exception" prints it and calls
\* self._emergency_stop_motors().
WdError ==
  /\ wd_pc = "estop" /\ wd_idx = 1 /\ main_pc # "exited"
  /\ wd_pc' = "recover"
  /\ UNCHANGED <<hw, ctl, cmd, wd_idx, hb_pc, heartbeat_state, proc, hist, obs>>

\* Mutant: the except handler's forced stop ends the loop.
WdRecover_ends_loop ==
  /\ wd_pc = "recover" /\ main_pc # "exited"
  /\ wd_pc' = "done"
  /\ wd_idx' = 0
  /\ UNCHANGED <<hw, ctl, cmd, hb_pc, heartbeat_state, proc, hist, obs>>

\* The except handler's self._emergency_stop_motors(), one statement; the
\* loop then goes on with its next check, without sleeping.
WdRecover ==
  /\ wd_pc = "recover" /\ main_pc # "exited"
  /\ LET prog == _emergency_stop_motors
         op   == prog[wd_idx]
         last == wd_idx = Len(prog) \/ Raises(op, Shared)
     IN /\ IF Raises(op, Shared)
           THEN /\ late_writes' = late_writes
                /\ UNCHANGED <<hw, ctl>>
           ELSE /\ Install(Exec(op, Shared, 0))
                /\ NoteWrite(op, FALSE)
                /\ UNCHANGED watchdog_active
        /\ wd_pc' = IF last THEN "loop" ELSE "recover"
        /\ wd_idx' = IF last THEN 0 ELSE wd_idx + 1
        /\ tick_saw_stop' = FALSE
        /\ wd_starved' = (wd_starved \/ Starves(wd_idx = Len(prog)
                                                  /\ ~Raises(op, Shared)))
  /\ UNCHANGED <<cmd, hb_pc, heartbeat_state, proc, released, stop_runs,
                 reported>>

\* The heartbeat tick's GPIO.output raises: "except Exception" prints it
\* and the loop goes on, heartbeat_state as it was.
HbFault ==
  /\ hb_pc \in {"toggle", "hold"} /\ main_pc # "exited"
  /\ hb_pc' = "loop"
  /\ UNCHANGED <<hw, ctl, cmd, wd_pc, wd_idx, heartbeat_state, proc, hist, obs>>

\* Serial schedules of HTTP commands in which any pin write of a command
\* or of a monitoring loop may fail.
NextFault ==
  \/ Construct
  \/ NodeReady
  \/ Tick
  \/ Quiescent /\ IssuePlain({"http"}, Plain)
  \/ \E t \in Ctx : CmdStep(t)
  \/ \E t \in Ctx : CmdFault(t)
  \/ WdFault \/ WdError \/ WdRecover \/ HbFault
  \/ Quiescent /\ WdLoop
  \/ WdStale \/ WdMoving \/ WdEstop \/ WdClear
  \/ Quiescent /\ HbLoop
  \/ HbBranch \/ HbWrite

SpecFault == Init /\ [][NextFault]_vars
---------------------------------------------------------------------------
(* Process shutdown: main's finally block, the signal handlers, atexit *)

StopSequences == {"cleanup_flag", "final_stop", "atexit"}
Indexed == {"cleanup_stop", "pwm_stop", "final_stop", "atexit"}

\* main moves to position pc; entering a stop sequence is counted.
Goto(pc) ==
  /\ main_pc' = pc
  /\ main_idx' = IF pc \in Indexed THEN 1 ELSE 0
  /\ stop_runs' = IF pc \in StopSequences THEN stop_runs + 1 ELSE stop_runs

\* rclpy.spin returns or raises (KeyboardInterrupt, an exception).
SpinEnds ==
  /\ main_pc = "spin"
  /\ cmd["ros"].m = "idle"
  /\ Goto("finally")
  /\ UNCHANGED <<hw, ctl, thr, has_node, http_serving, signals,
                 released, late_writes>>
  /\ UNCHANGED obs

\* SafeRobotCarNode(robot_ip) raises before or after the controller exists:
\* robot_node is never bound.
InitFails ==
  /\ main_pc \in {"start", "node_init"}
  /\ Goto("finally")
  /\ UNCHANGED <<hw, ctl, thr, has_node, http_serving, signals,
                 released, late_writes>>
  /\ UNCHANGED obs

\* finally: if 'robot_node' in locals(): robot_node.destroy_node()
Finally ==
  /\ main_pc = "finally"
  /\ Goto(IF has_node THEN "cleanup_flag" ELSE "final_stop")
  /\ UNCHANGED <<hw, ctl, thr, has_node, http_serving, signals,
                 released, late_writes>>
  /\ UNCHANGED obs

\* cleanup(): self.watchdog_active = False
CleanupFlag ==
  /\ main_pc = "cleanup_flag"
  /\ watchdog_active' = FALSE
  /\ Goto("cleanup_stop")
  /\ UNCHANGED <<hw, current_speed, is_moving, age, thr, has_node,
                 http_serving, signals, released, late_writes>>
  /\ UNCHANGED obs

\* One statement of a stop sequence on the main thread; each sequence is
\* one try/except, so a raise ends it.
MainRun(pc, prog, next) ==
  /\ main_pc = pc
  /\ LET op == prog[main_idx]
     IN IF Raises(op, Shared)
        THEN /\ Goto(next)
             /\ late_writes' = late_writes
             /\ UNCHANGED <<hw, ctl>>
        ELSE /\ Install(Exec(op, Shared, 0))
             /\ NoteWrite(op, FALSE)
             /\ IF main_idx = Len(prog)
                THEN Goto(next)
                ELSE /\ main_idx' = main_idx + 1
                     /\ UNCHANGED <<main_pc, stop_runs>>
             /\ UNCHANGED watchdog_active
  /\ UNCHANGED <<thr, has_node, http_serving, signals, released>>
  /\ UNCHANGED obs

\* cleanup(): self._emergency_stop_motors()
CleanupStop == MainRun("cleanup_stop", _emergency_stop_motors, "pwm_stop")

\* cleanup(): self.pwm_a.stop(); self.pwm_b.stop()
PwmStop ==
  /\ main_pc = "pwm_stop"
  /\ LET ch == IF main_idx = 1 THEN "ENA" ELSE "ENB"
     IN /\ pwm_on' = [pwm_on EXCEPT ![ch] = FALSE]
        /\ duty' = [duty EXCEPT ![ch] = 0]
  /\ IF main_idx = 2 THEN Goto("gpio_cleanup")
                     ELSE /\ main_idx' = main_idx + 1
                          /\ UNCHANGED <<main_pc, stop_runs>>
  /\ UNCHANGED <<pin, out_pins, ctl, thr, has_node, http_serving,
                 signals, released, late_writes>>
  /\ UNCHANGED obs

\* cleanup(): time.sleep(0.2); GPIO.cleanup()
GpioCleanup ==
  /\ main_pc = "gpio_cleanup"
  /\ pin' = [p \in LevelPins |-> LOW]
  /\ duty' = [c \in Channels |-> 0]
  /\ out_pins' = {}
  /\ released' = TRUE
  /\ Goto("http_shutdown")
  /\ UNCHANGED <<pwm_on, ctl, thr, has_node, http_serving, signals,
                 late_writes>>
  /\ UNCHANGED obs

\* destroy_node(): self.http_server.shutdown() returns once the request
\* being served has ended; rclpy.shutdown() follows.
HttpShutdown ==
  /\ main_pc = "http_shutdown"
  /\ cmd["http"].m = "idle"
  /\ http_serving' = FALSE
  /\ Goto("final_stop")
  /\ UNCHANGED <<hw, ctl, thr, has_node, signals, released, late_writes>>
  /\ UNCHANGED obs

\* finally: emergency_stop()  # Final safety stop
FinalStop == MainRun("final_stop", emergency_stop, "atexit")

\* atexit.register(emergency_stop), run when main has returned
AtExit == MainRun("atexit", emergency_stop, "finalize")

\* The interpreter ends the process; daemon threads run until it does.
ProcessExit ==
  /\ main_pc = "finalize"
  /\ Goto("exited")
  /\ UNCHANGED <<hw, ctl, thr, has_node, http_serving, signals,
                 released, late_writes>>
  /\ UNCHANGED obs

\* Where SystemExit, raised by the handler's sys.exit(0), takes main from pc.
AfterExit(pc) ==
  IF pc \in {"start", "node_init", "spin"} THEN "finally"
  ELSE IF pc \in {"atexit", "finalize"} THEN "finalize"
  ELSE "atexit"

\* SIGTERM or SIGINT: lambda sig, frame: emergency_stop() or sys.exit(0).
\* The handler runs on the main thread between two of its statements, here
\* as one step; its SystemExit unwinds the interrupted frame, a ROS
\* callback included.
Signal ==
  /\ main_pc # "exited"
  /\ signals < MaxSignals
  /\ signals' = signals + 1
  /\ Install(RunFrom(emergency_stop, 1, Shared, 0))
  /\ late_writes' = (late_writes \/ released)
  /\ main_pc' = AfterExit(main_pc)
  /\ main_idx' = IF main_pc' \in Indexed THEN 1 ELSE 0
  /\ stop_runs' = stop_runs + (IF main_pc' \in StopSequences THEN 2 ELSE 1)
  /\ cmd' = [cmd EXCEPT !["ros"] = Idle]
  /\ UNCHANGED <<watchdog_active, wd_pc, wd_idx, hb_pc, heartbeat_state,
                 has_node, http_serving, released>>
  /\ UNCHANGED obs

Shutdown ==
  \/ SpinEnds \/ InitFails \/ Finally \/ CleanupFlag \/ CleanupStop
  \/ PwmStop \/ GpioCleanup \/ HttpShutdown \/ FinalStop \/ AtExit
  \/ ProcessExit

\* The whole life of the process without signals: construction, forward
\* commands over HTTP, the two loops, and main's way out through finally
\* and atexit.
NextLife ==
  \/ Construct
  \/ NodeReady
  \/ Tick
  \/ IssuePlain({"http"}, {"move_forward"})
  \/ \E t \in Ctx : CmdStep(t)
  \/ Watchdog
  \/ Heartbeat
  \/ Shutdown

SpecLife == Init /\ [][NextLife]_vars

\* The same with signals, the forward commands coming from ROS callbacks.
NextSignal ==
  \/ Construct
  \/ NodeReady
  \/ Tick
  \/ IssuePlain({"ros"}, {"move_forward"})
  \/ \E t \in Ctx : CmdStep(t)
  \/ Watchdog
  \/ Heartbeat
  \/ Shutdown
  \/ Signal

SpecSignal == Init /\ [][NextSignal]_vars
---------------------------------------------------------------------------
(* State predicates used by the properties *)

MotorsOff ==
  /\ \A c \in Channels : duty[c] = 0
  /\ \A p \in DirPins : pin[p] = LOW

\* A motor is driven: a direction pin is HIGH and an enable carries duty.
Energized ==
  /\ \E p \in DirPins : pin[p] = HIGH
  /\ \E c \in Channels : duty[c] > 0

DirLevels == <<pin["IN1"], pin["IN2"], pin["IN3"], pin["IN4"]>>

\* Some context enters a method: a command is issued.
CommandIssued ==
  \E t \in Ctx : cmd[t].m = "idle" /\ cmd'[t].m # "idle"

---------------------------------------------------------------------------
(* Fair scheduling: every thread that can run eventually runs, and time    *)
(* passes.  Nothing obliges a transport to issue a command.                *)

Fairness ==
  /\ WF_vars(Construct \/ NodeReady)
  /\ WF_vars(Tick)
  /\ WF_vars(\E t \in Ctx : CmdStep(t))
  /\ WF_vars(Watchdog)
  /\ WF_vars(Heartbeat)

\* One command context, forward and stop only, with the two loops.
NextAuto ==
  \/ Construct
  \/ NodeReady
  \/ Tick
  \/ IssuePlain({"ros"}, {"move_forward", "stop"})
  \/ \E t \in Ctx : CmdStep(t)
  \/ Watchdog
  \/ Heartbeat

SpecAuto == Init /\ [][NextAuto]_vars /\ Fairness

\* The life of the process with forward commands from ROS callbacks, the
\* threads scheduled fairly.  main may take any time over each step of its
\* way out, and the loops are daemon threads: the process can end while
\* they sleep.
NextCancel ==
  \/ Construct
  \/ NodeReady
  \/ Tick
  \/ IssuePlain({"ros"}, {"move_forward"})
  \/ \E t \in Ctx : CmdStep(t)
  \/ Watchdog
  \/ Heartbeat
  \/ Shutdown

SpecCancel == Init /\ [][NextCancel]_vars /\ Fairness

---------------------------------------------------------------------------
(* C1: motors stop automatically when command traffic stops: in every fair *)
(* behaviour, either commands keep being issued for ever, or from some     *)
(* point on both enable channels carry no duty and all four direction      *)
(* pins are LOW.                                                           *)
C1_AutoStop == []<><<CommandIssued>>_vars \/ <>[]MotorsOff

---------------------------------------------------------------------------
(* Steps the properties speak about *)

TickPositions == {"stale", "moving", "estop", "clear"}

\* The watchdog tick in flight reaches its sleep.
TickEnds == wd_pc \in TickPositions /\ wd_pc' = "loop"

\* Context t returns from method m.
Returns(t, m) == cmd[t].m = m /\ cmd'[t].m = "idle"

\* A forced stop (the method, or the watchdog's call of it) ends.
ForcedStopEnds ==
  \/ \E t \in Ctx : Returns(t, "_emergency_stop_motors")
  \/ wd_pc = "estop" /\ wd_pc' = "clear"

---------------------------------------------------------------------------
(* C2: when a watchdog tick ends at which the last command is older than   *)
(* WATCHDOG_TIMEOUT and is_moving is true, and no command ran during the   *)
(* tick, it leaves is_moving false, both enable channels at zero duty and  *)
(* the four direction pins LOW.                                            *)
C2_ForcedStop ==
  [][ (TickEnds /\ age > WATCHDOG_TIMEOUT /\ is_moving)
        => (~is_moving' /\ MotorsOff') ]_vars

\* The tick has run its forced stop on a moving robot with a stale command.
C2_Witness ==
  /\ wd_pc = "clear" /\ age > WATCHDOG_TIMEOUT /\ is_moving /\ MotorsOff
  /\ \A t \in Ctx : cmd[t].m = "idle"

(* C3: once a movement command and a watchdog tick that forced a stop have *)
(* both finished, the motors are never energized while is_moving is false. *)
C3_NoUnsupervisedMotion ==
  (/\ \A t \in Ctx : cmd[t].m = "idle"
   /\ wd_pc = "loop")
  => ~(~is_moving /\ Energized)

(* C4, as claimed: in every reachable state is_moving implies that the     *)
(* last command is no older than WATCHDOG_TIMEOUT.                         *)
C4_AlwaysFresh == is_moving => age <= WATCHDOG_TIMEOUT

(* C4, amended: the bound holds whenever a watchdog tick ends, by the      *)
(* clock value the tick sampled; between ticks it can be exceeded.         *)
C4_TickRestores ==
  [][ TickEnds => (is_moving' => age' <= WATCHDOG_TIMEOUT) ]_vars

\* A tick is about to end its forced stop of a robot that moved on a stale
\* command.
C4_Witness == wd_pc = "clear" /\ is_moving /\ age > WATCHDOG_TIMEOUT

(* C5: a forced stop, run from any state without interleaving, ends with   *)
(* the four direction pins LOW and both enable channels at zero duty, and  *)
(* running it once more changes nothing.                                   *)
C5_EmergencyStop ==
  [][ ForcedStopEnds =>
        /\ MotorsOff'
        /\ RunFrom(_emergency_stop_motors, 1, Shared', 0) = Shared' ]_vars

\* The emergency_stop command has returned on a robot that was moving.
C5_Witness ==
  /\ Quiescent /\ is_moving /\ MotorsOff /\ pin[WATCHDOG_PIN] = LOW

(* C6: when the process has ended, the six motor pins are inactive and the *)
(* hardware-watchdog pin is LOW.                                           *)
C6_SafeAtExit ==
  main_pc = "exited" => (MotorsOff /\ pin[WATCHDOG_PIN] = LOW)

(* C7: the shutdown stop sequence runs at most once per process.           *)
C7_StopOnce == stop_runs <= 1

(* C8: no pin is written once cleanup() has released the pins.             *)
C8_NoLateWrite == ~late_writes

\* The direction-pin table of the specification.
TruthTable(m) ==
  CASE m = "move_forward"  -> <<HIGH, LOW, HIGH, LOW>>
    [] m = "move_backward" -> <<LOW, HIGH, LOW, HIGH>>
    [] m = "turn_left"     -> <<LOW, HIGH, HIGH, LOW>>
    [] m = "turn_right"    -> <<HIGH, LOW, LOW, HIGH>>

(* C9: when a movement command returns, run without interleaving, the      *)
(* direction pins are exactly the command's row of the truth table.        *)
C9_TruthTable ==
  [][ \A t \in Ctx, m \in Moves :
        Returns(t, m) => DirLevels' = TruthTable(m) ]_vars

\* A left turn has returned.
C9_Witness ==
  /\ Quiescent /\ is_moving /\ DirLevels = <<LOW, HIGH, HIGH, LOW>>
  /\ \A c \in Channels : duty[c] > 0

(* C10: when a movement command returns, both enable channels carry the    *)
(* speed argument if one was given and current_speed otherwise, and        *)
(* is_moving is true.                                                      *)
C10_EffectiveSpeed ==
  [][ \A t \in Ctx, m \in Moves :
        Returns(t, m) =>
          /\ \A c \in Channels :
               duty'[c] = IF cmd[t].given THEN cmd[t].arg ELSE current_speed
          /\ is_moving' ]_vars

\* forward without argument has returned while current_speed is 70.
C10_Witness ==
  /\ Quiescent /\ is_moving /\ current_speed = DEFAULT_SPEED
  /\ DirLevels = <<HIGH, LOW, HIGH, LOW>>
  /\ \A c \in Channels : duty[c] = DEFAULT_SPEED

---------------------------------------------------------------------------
\* A step of context t inside method m.
StepOf(t, m) == cmd[t].m = m /\ cmd'[t] # cmd[t]

(* C11: when set_speed(p) returns, current_speed is p clamped into 0..100  *)
(* (0 for a negative p, 100 for a p above 100), and current_speed is       *)
(* within 0..100 in every reachable state.                                 *)
C11_Clamped ==
  /\ [](current_speed \in 0..100)
  /\ [][ \A t \in Ctx :
           Returns(t, "set_speed") =>
             current_speed' = IF cmd[t].arg < 0 THEN 0
                              ELSE IF cmd[t].arg > 100 THEN 100
                              ELSE cmd[t].arg ]_vars

\* set_speed(-5) has returned.
C11_Witness == Quiescent /\ current_speed = 0

(* C12: no step of set_speed changes a direction pin, the hardware-        *)
(* watchdog pin, an enable duty, is_moving or watchdog_active.             *)
C12_SpeedFrame ==
  [][ \A t \in Ctx :
        StepOf(t, "set_speed") =>
          UNCHANGED <<pin, duty, is_moving, watchdog_active>> ]_vars

\* set_speed(150) has returned while the robot moves forward at 70%.
C12_Witness ==
  /\ Quiescent /\ is_moving /\ current_speed = 100
  /\ DirLevels = <<HIGH, LOW, HIGH, LOW>>
  /\ \A c \in Channels : duty[c] = DEFAULT_SPEED

(* C13: no step of stop changes current_speed, and when stop returns both  *)
(* enable duties are 0, the four direction pins are LOW, is_moving is      *)
(* false and last_command_time is the current time.                        *)
C13_Stop ==
  [][ \A t \in Ctx :
        /\ StepOf(t, "stop") => current_speed' = current_speed
        /\ Returns(t, "stop") => (MotorsOff' /\ ~is_moving' /\ age' = 0) ]_vars

\* stop, called on a moving robot, has zeroed the pins and is about to
\* clear is_moving.
C13_Witness ==
  \E t \in Ctx :
    /\ cmd[t].m = "stop" /\ cmd[t].idx = Len(stop)
    /\ is_moving /\ MotorsOff /\ age = 0

(* C14: a watchdog tick that begins after stop() was issued, the stop      *)
(* still running or just returned, never enters the forced stop.           *)
C14_NoDoubleStop == ~(wd_pc = "estop" /\ tick_saw_stop)

(* C15: dispatching an unknown token ('banana', or 'speed', which          *)
(* execute_command does not know) changes no pin and no duty, leaves       *)
(* is_moving and current_speed as they were, starts no controller method   *)
(* (no forced stop), and reports UnknownCommand.                           *)
C15_UnknownToken ==
  [][ \A t \in Ctx, c \in {"banana", "speed"} :
        Execute(t, c) =>
          /\ UNCHANGED <<pin, duty, is_moving, current_speed>>
          /\ cmd'[t].m = "idle"
          /\ reported'[t] = "UnknownCommand" ]_vars

\* 'banana' has been dispatched while the robot moves forward.
C15_Witness ==
  /\ Quiescent /\ reported["ros"] = "UnknownCommand"
  /\ is_moving /\ DirLevels = <<HIGH, LOW, HIGH, LOW>>
  /\ \A c \in Channels : duty[c] = DEFAULT_SPEED

(* C16: when the method an accepted token is dispatched to returns, no     *)
(* time having passed since the dispatch, last_command_time is the         *)
(* current time.                                                           *)
C16_Timestamp ==
  [][ \A t \in Ctx, m \in Methods : Returns(t, m) => age' = 0 ]_vars

\* A speed command without a usable value: over HTTP with the value
\* absent or not a number, over the command topic (which carries no value).
BadSpeed ==
  \/ handle_control_command("speed", NoValue)
  \/ handle_control_command("speed", TextValue)
  \/ command_callback("speed")

(* C17: a speed command whose value is absent or not a number reports      *)
(* InvalidArgument to its caller and leaves current_speed, is_moving, the  *)
(* direction pins and the enable duties unchanged.                         *)
C17_InvalidArgument ==
  [][ BadSpeed =>
        /\ UNCHANGED <<pin, duty, is_moving, current_speed>>
        /\ \E t \in Ctx : /\ reported'[t] # reported[t]
                          /\ reported'[t] = "InvalidArgument" ]_vars

\* A heartbeat tick writes the pin from position pc and goes to sleep.
HbWrites(pc) == hb_pc = pc /\ hb_pc' = "loop"

(* C18: a heartbeat tick takes its toggle branch exactly when it reads     *)
(* is_moving true; a toggling tick writes HIGH if heartbeat_state is true  *)
(* and LOW otherwise and then inverts heartbeat_state, which starts true   *)
(* and changes in no other step, so that successive moving ticks write     *)
(* HIGH, LOW, HIGH, ...; a tick that reads is_moving false writes HIGH.    *)
C18_Heartbeat ==
  /\ [](hb_pc = "off" => heartbeat_state)
  /\ [][ /\ (hb_pc = "branch" /\ hb_pc' # hb_pc) =>
              ((hb_pc' = "toggle") <=> is_moving)
         /\ HbWrites("toggle") =>
              /\ pin'[WATCHDOG_PIN] = (IF heartbeat_state THEN HIGH ELSE LOW)
              /\ heartbeat_state' = ~heartbeat_state
         /\ HbWrites("hold") => pin'[WATCHDOG_PIN] = HIGH
         /\ ~HbWrites("toggle") => heartbeat_state' = heartbeat_state ]_vars

\* The second moving tick in a row has written LOW.
C18_Witness ==
  /\ Quiescent /\ is_moving /\ ~wd_starved
  /\ heartbeat_state /\ pin[WATCHDOG_PIN] = LOW

(* C19: from the completion of a forced stop until the next movement       *)
(* command is accepted, the hardware-watchdog pin is LOW.                  *)
C19_StaysLow == wd_starved => pin[WATCHDOG_PIN] = LOW

\* A movement command of context t ends by an exception.
Failed(t) ==
  /\ cmd[t].m \in Moves
  /\ cmd'[t].m = "idle"
  /\ cmd[t].idx < Len(ProgOf(cmd[t].m))

(* C20: when a movement command ends by a failed pin write, the motors     *)
(* are not energized after the call.                                       *)
C20_PreferStopped ==
  [][ \A t \in Ctx : Failed(t) => ~Energized' ]_vars

(* C21: a watchdog tick whose forced stop failed, the motors being still   *)
(* energized when it ends, leaves is_moving true, so that the following    *)
(* ticks attempt the forced stop again.                                    *)
C21_Retried ==
  [][ (wd_pc = "clear" /\ wd_pc' = "loop" /\ Energized) => is_moving' ]_vars

Disarmed == wd_pc # "off" /\ ~watchdog_active

LoopsDone == wd_pc = "done" /\ hb_pc = "done"

C24_Ordering ==
  [][ \A t \in Ctx, m \in Methods :
        /\ Returns(t, m) => (is_moving' => age' = 0)
        /\ (StepOf(t, m) /\ ~is_moving /\ is_moving') => age = 0 ]_vars

(* C25: whenever no command, forced stop or tick is in flight, is_moving   *)
(* is true exactly when a direction pin is HIGH and an enable channel      *)
(* carries duty.                                                           *)
C25_MovingIffEnergized == Quiescent => (is_moving <=> Energized)

(* C26: every value a movement command passes to ChangeDutyCycle is within *)
(* 0..100.                                                                 *)
C26_DutyRange ==
  \A t \in Ctx :
    (cmd[t].m \in Moves /\ ProgOf(cmd[t].m)[cmd[t].idx].k = "duty_speed")
      => cmd[t].speed \in 0..100

(* C27: watchdog_active becomes true only in the constructor and false     *)
(* only in cleanup(); once cleanup() has cleared it, it stays false; it is *)
(* true from construction until then.                                      *)
C27_ArmedOnce ==
  /\ []((wd_pc # "off" /\ main_pc \in {"node_init", "spin"}) => watchdog_active)
  /\ [][ /\ (watchdog_active' # watchdog_active) =>
              \/ main_pc = "start" /\ watchdog_active'
              \/ main_pc = "cleanup_flag" /\ ~watchdog_active'
         /\ (wd_pc # "off" /\ ~watchdog_active) => ~watchdog_active' ]_vars

\* The process has ended after a teardown that disarmed the watchdog, the
\* watchdog having forced a stop before.
C27_Witness ==
  main_pc = "exited" /\ has_node /\ ~watchdog_active /\ wd_starved

(* C28: whenever a watchdog tick is about to write a forced-stop pin or to *)
(* clear is_moving, the last command is older than WATCHDOG_TIMEOUT.       *)
C28_OnlyStale == wd_pc \in {"estop", "clear"} => age > WATCHDOG_TIMEOUT

\* A step of the heartbeat loop, a step of the watchdog loop.
HbStep == hb_pc # "off" /\ hb_pc' # hb_pc
WdStep == wd_pc # "off" /\ (wd_pc' # wd_pc \/ wd_idx' # wd_idx)

(* C29: a step of the heartbeat loop leaves is_moving, current_speed,      *)
(* last_command_time, the direction pins and the enable duties unchanged;  *)
(* a step of the watchdog loop leaves current_speed and last_command_time  *)
(* unchanged.                                                              *)
C29_LoopFrames ==
  [][ /\ HbStep => (/\ UNCHANGED <<is_moving, current_speed, age, duty>>
                    /\ \A p \in DirPins : pin'[p] = pin[p])
      /\ WdStep => UNCHANGED <<current_speed, age>> ]_vars

\* A heartbeat tick has toggled the pin LOW on a moving robot whose motors
\* run.
C29_Witness ==
  /\ hb_pc = "loop" /\ heartbeat_state /\ pin[WATCHDOG_PIN] = LOW
  /\ is_moving /\ Energized /\ wd_pc = "loop"

\* The state command m leaves when it runs alone.
OutcomeOf(m) ==
  IF m = "stop"
  THEN MotorsOff /\ ~is_moving
  ELSE /\ DirLevels = TruthTable(m)
       /\ \A c \in Channels : duty[c] = current_speed
       /\ is_moving

(* C30: once the commands of both contexts have returned, the direction    *)
(* pins, the enable duties and is_moving are those of one of the commands  *)
(* forward, backward or stop.                                              *)
C30_Serialisable ==
  (\A t \in Ctx : cmd[t].m = "idle") => \E m \in DualCommands : OutcomeOf(m)

\* The step asserts a direction pin or puts duty on an idle enable channel.
Asserts ==
  \/ \E p \in DirPins : pin[p] = LOW /\ pin'[p] = HIGH
  \/ \E c \in Channels : duty[c] = 0 /\ duty'[c] > 0

(* C31: a movement command, after a forced stop as after anything else,    *)
(* has the hardware-watchdog pin HIGH before any of its steps asserts a    *)
(* direction pin or a non-zero duty, and returns with the truth-table      *)
(* direction pins, both enables at the effective speed and is_moving true. *)
C31_NotLatching ==
  [][ \A t \in Ctx, m \in Moves :
        /\ (StepOf(t, m) /\ Asserts) => pin[WATCHDOG_PIN] = HIGH
        /\ Returns(t, m) =>
              /\ pin'[WATCHDOG_PIN] = HIGH
              /\ DirLevels' = TruthTable(m)
              /\ \A c \in Channels :
                   duty'[c] = IF cmd[t].given THEN cmd[t].arg ELSE current_speed
              /\ is_moving' ]_vars

\* backward, issued after a forced stop that left the hardware-watchdog
\* pin LOW and the motors off, has raised the pin and is about to assert
\* its first direction pin.
C31_Witness ==
  \E t \in Ctx :
    /\ cmd[t].m = "move_backward"
    /\ ProgOf(cmd[t].m)[cmd[t].idx] = Out("IN2", HIGH)
    /\ MotorsOff /\ pin[WATCHDOG_PIN] = HIGH
    /\ is_moving /\ current_speed = DEFAULT_SPEED

(* C32: no step of a movement command changes current_speed, which changes *)
(* only in set_speed (and is set by the constructor); a movement command   *)
(* with a speed argument returns with that speed on both enable channels,  *)
(* one without argument with the stored current_speed.                     *)
C32_SpeedStored ==
  [][ /\ \A t \in Ctx, m \in Moves :
           /\ StepOf(t, m) => current_speed' = current_speed
           /\ (Returns(t, m) /\ cmd[t].given) =>
                 \A c \in Channels : duty'[c] = cmd[t].arg
           /\ (Returns(t, m) /\ ~cmd[t].given) =>
                 \A c \in Channels : duty'[c] = current_speed'
      /\ (current_speed' # current_speed) =>
           \/ main_pc = "start"
           \/ \E t \in Ctx : StepOf(t, "set_speed") ]_vars

\* A movement command with argument 40 has returned; current_speed is
\* still the 100 an earlier set_speed(150) stored.
C32_Witness ==
  /\ Quiescent /\ is_moving /\ current_speed = 100
  /\ \A c \in Channels : duty[c] = 40

\* The method the specification's translation selects for a velocity input
\* (both components in hundredths).
Translation(linear, angular) ==
  IF Abs(linear) > Abs(angular)
  THEN (IF linear > 0 THEN "move_forward" ELSE "move_backward")
  ELSE IF Abs(angular) > 10
  THEN (IF angular > 0 THEN "turn_left" ELSE "turn_right")
  ELSE "stop"

(* C33: every velocity input (linear, angular) refreshes the timestamp and *)
(* invokes exactly one controller method: forward or backward by the sign  *)
(* of linear when abs(linear) > abs(angular); otherwise left or right by   *)
(* the sign of angular when abs(angular) > 0.1; otherwise stop.            *)
C33_Translation ==
  [][ \A linear \in VelValues, angular \in VelValues :
        cmd_vel_callback(linear, angular) =>
          /\ age' = 0
          /\ cmd'["ros"].m = Translation(linear, angular)
          /\ cmd'["ros"].idx = 1
          /\ cmd'["http"] = cmd["http"] ]_vars

\* A velocity input inside the deadband has invoked stop on a moving robot.
C33_Witness ==
  /\ cmd["ros"].m = "stop" /\ cmd["ros"].idx = 1
  /\ is_moving /\ Energized /\ age = 0

=============================================================================
